---- MODULE Spec2Model ----
(***************************************************************************)
(* A model of tpm-read-write.py: a key/value store on the NV indices of a  *)
(* TPM, driven through the tpm2-tools commands.  The device is the state   *)
(* the tools act on; tpm_write, tpm_read_nvm and tpm_delete_index are      *)
(* modelled one device command per step.                                   *)
(***************************************************************************)
EXTENDS Integers, Sequences, FiniteSets, TLC

VARIABLES nv, limits, pc, call, cmds, nv0, outcome, result, committed, deleted, replaced

vars == <<nv, limits, pc, call, cmds, nv0, outcome, result, committed, deleted, replaced>>

----------------------------------------------------------------------------
(* Program constants *)

\* 0x01800000, lower end of the user band (tpm_write, sanity check 1)
LOW == 25165824

\* 0x01BFFFFF, upper end of the user band (tpm_write, sanity check 1)
HIGH == 29360127

\* min_pwd_length (tpm_write, sanity check 4)
min_pwd_length == 5

----------------------------------------------------------------------------
(* Bounds of the model *)

\* largest TPM2_PT_NV_BUFFER_MAX / TPM2_PT_NV_INDEX_MAX a modelled device reports
MaxLimit == 2

\* values are one character longer than the largest limit at most
MaxValueLen == MaxLimit + 1

Procs == {1, 2}

\* the addresses callers pass: the ends of the band and their outer neighbours
Addr == {LOW - 1, LOW, HIGH, HIGH + 1}

\* code points of the characters of a value: "a" (one byte in UTF-8) and
\* "e acute" (two bytes in UTF-8)
Chars == {97, 233}

\* the strings callers pass as value: up to MaxValueLen characters, a
\* non-ASCII character only in the last place
Values ==
  UNION { { v \in [1..n -> Chars] : \A i \in 1..(n - 1) : v[i] < 128 } : n \in 0..MaxValueLen }

\* pwd arguments: None (the default), and strings of length 0, 4 and 5
NoPwd == [present |-> FALSE, text |-> ""]

SomePwd(s) == [present |-> TRUE, text |-> s]

Pwds == {NoPwd, SomePwd(""), SomePwd("abcd"), SomePwd("abcde")}

----------------------------------------------------------------------------
(* Strings and bytes *)

\* str.encode("utf-8") of one character (code points below 0x800)
Utf8Char(c) == IF c < 128 THEN <<c>> ELSE <<192 + (c \div 64), 128 + (c % 64)>>

RECURSIVE Utf8Encode(_)
\* value.encode("utf-8")
Utf8Encode(s) == IF s = <<>> THEN <<>> ELSE Utf8Char(Head(s)) \o Utf8Encode(Tail(s))

DecodeError == <<-1>>

RECURSIVE Utf8Decode(_)
\* bytes.decode(): the string, or DecodeError where Python raises UnicodeDecodeError
Utf8Decode(b) ==
  IF b = <<>> THEN <<>>
  ELSE IF b[1] < 128
    THEN LET r == Utf8Decode(Tail(b))
         IN  IF r = DecodeError THEN DecodeError ELSE <<b[1]>> \o r
  ELSE IF b[1] >= 194 /\ b[1] <= 223 /\ Len(b) >= 2 /\ b[2] >= 128 /\ b[2] <= 191
    THEN LET r == Utf8Decode(Tail(Tail(b)))
         IN  IF r = DecodeError THEN DecodeError
             ELSE <<(b[1] - 192) * 64 + (b[2] - 128)>> \o r
  ELSE DecodeError

\* Python truthiness of the pwd argument: None and "" are both false
Truthy(pwd) == pwd.present /\ Len(pwd.text) > 0

\* the authorisation a command carries: -P/-p pwd when pwd is truthy, else the empty auth
CmdAuth(pwd) == IF Truthy(pwd) THEN pwd.text ELSE ""

----------------------------------------------------------------------------
(* The device behind the tpm2-tools commands *)

NoSlot == [defined |-> FALSE, size |-> 0, auth |-> "", written |-> FALSE, data |-> <<>>]

\* the bytes an index holds that were never meant: erased cells read 0xFF
Erased(n) == [i \in 1..n |-> 255]

\* the auth values an index can carry
Auths == {"", "abcd", "abcde"}

\* tpm2_getcap handles-nv-index: the handles of the defined indices
DevHandles(d) == {a \in Addr : d[a].defined}

\* tpm2_getcap properties-fixed: the two raw values tpm_write looks at
DevProperties(lim) == [TPM2_PT_NV_BUFFER_MAX |-> lim.buf, TPM2_PT_NV_INDEX_MAX |-> lim.idx]

\* tpm2_nvreadpublic: the size of a defined index
DevReadPublic(d, a) == d[a].size

DefineFaults == {"none", "nostorage", "badecho"}

\* tpm2_nvdefine -C o -s size [-p auth] a: refused for a defined index, a size
\* above the device's maximum or when no storage is left; otherwise the index
\* exists, unwritten, and the response names it ("nv-index: 0x...")
DevDefine(d, lim, a, size, auth, fault) ==
  IF d[a].defined \/ size > lim.idx \/ fault = "nostorage"
  THEN [ok |-> FALSE, dev |-> d, echo |-> 0]
  ELSE [ok |-> TRUE,
        dev |-> [d EXCEPT ![a] = [defined |-> TRUE, size |-> size, auth |-> auth,
                                  written |-> FALSE, data |-> <<>>]],
        echo |-> IF fault = "badecho" THEN 0 ELSE a]

WriteFaults == {"none", "fail", "corrupt", "unmarked"}

\* tpm2_nvwrite -C a [-P auth] -i - a: refused for a missing index, a wrong
\* auth or more bytes than the index holds; otherwise the index holds the
\* bytes.  A device at fault stores erased cells instead; a write of no bytes
\* may leave the index unwritten.
DevWrite(d, a, auth, bytes, fault) ==
  IF ~d[a].defined \/ d[a].auth # auth \/ Len(bytes) > d[a].size \/ fault = "fail"
  THEN [ok |-> FALSE, dev |-> d]
  ELSE IF fault = "unmarked" /\ Len(bytes) = 0
  THEN [ok |-> TRUE, dev |-> d]
  ELSE [ok |-> TRUE,
        dev |-> [d EXCEPT ![a].written = TRUE,
                          ![a].data = IF fault = "corrupt" THEN Erased(d[a].size)
                                      ELSE bytes \o Erased(d[a].size - Len(bytes))]]

\* tpm2_nvread -C a -s size [-P auth] a: refused for a missing or unwritten
\* index, a wrong auth or a size beyond the index; otherwise the first size bytes
DevRead(d, a, size, auth) ==
  IF ~d[a].defined \/ d[a].auth # auth \/ ~d[a].written \/ size > d[a].size
  THEN [ok |-> FALSE, bytes |-> <<>>]
  ELSE [ok |-> TRUE, bytes |-> SubSeq(d[a].data, 1, size)]

UndefineFaults == {"none", "fail"}

\* tpm2_nvundefine -C o a: under the owner hierarchy the index's own auth is
\* not asked for; refused for a missing index or when the owner refuses
DevUndefine(d, a, fault) ==
  IF ~d[a].defined \/ fault = "fail"
  THEN [ok |-> FALSE, dev |-> d]
  ELSE [ok |-> TRUE, dev |-> [d EXCEPT ![a] = NoSlot]]

----------------------------------------------------------------------------
(* The state of the callers *)

NoCall == [op |-> "none", key |-> 0, value |-> <<>>, pwd |-> NoPwd, nvm_length |-> 0,
           result_response |-> 0]

NoResult == [kind |-> "none", str |-> <<>>]

NoCommit == [set |-> FALSE, value |-> <<>>, pwd |-> NoPwd]

NoReplaced == [set |-> FALSE, value |-> <<>>]

\* one entry of the log of the device commands a call has issued
Cmd(name, a, size, auth) == [cmd |-> name, addr |-> a, size |-> size, auth |-> auth]

\* the devices a run starts on: no index at all, or one index of the system
\* outside the user band (as 0x1410001 in the file's header)
InitDevices ==
  { [a \in Addr |-> NoSlot],
    [a \in Addr |-> IF a = HIGH + 1
                    THEN [defined |-> TRUE, size |-> 1, auth |-> "", written |-> TRUE,
                          data |-> <<97>>]
                    ELSE NoSlot] }

\* the limits a device reports: equal, or either one the smaller
InitLimits ==
  { [buf |-> MaxLimit, idx |-> MaxLimit],
    [buf |-> MaxLimit - 1, idx |-> MaxLimit],
    [buf |-> MaxLimit, idx |-> MaxLimit - 1] }

Init ==
  /\ nv \in InitDevices
  /\ limits \in InitLimits
  /\ pc = [p \in Procs |-> "idle"]
  /\ call = [p \in Procs |-> NoCall]
  /\ cmds = [p \in Procs |-> <<>>]
  /\ nv0 = [p \in Procs |-> nv]
  /\ outcome = [p \in Procs |-> "none"]
  /\ result = [p \in Procs |-> NoResult]
  /\ committed = [a \in Addr |-> NoCommit]
  /\ deleted = {}
  /\ replaced = [a \in Addr |-> NoReplaced]

\* a caller is free to make its next call
Free(p) == pc[p] = "idle"

\* the call of p ends with outcome out and return value res
Finish(p, out, res) ==
  /\ pc' = [pc EXCEPT ![p] = "done"]
  /\ outcome' = [outcome EXCEPT ![p] = out]
  /\ result' = [result EXCEPT ![p] = res]

\* the call of p goes on at label l
Goto(p, l) ==
  /\ pc' = [pc EXCEPT ![p] = l]
  /\ UNCHANGED <<outcome, result>>

\* the call of p issues a device command
Issue(p, c) == cmds' = [cmds EXCEPT ![p] = Append(@, c)]

\* a call begins: its arguments, an empty command log, the device as it is
Begin(p, op, key, value, pwd) ==
  /\ call' = [call EXCEPT ![p] = [op |-> op, key |-> key, value |-> value, pwd |-> pwd,
                                  nvm_length |-> 0, result_response |-> 0]]
  /\ cmds' = [cmds EXCEPT ![p] = <<>>]
  /\ nv0' = [nv0 EXCEPT ![p] = nv]

\* tpm_get_nv_indices: the parsed list, or None when the command printed nothing
tpm_get_nv_indices(d) ==
  IF DevHandles(d) = {} THEN [none |-> TRUE, items |-> {}]
  ELSE [none |-> FALSE, items |-> DevHandles(d)]

\* a range check that lets the address after HIGH through
InUserRange_OffByOne(key) == LOW <= key /\ key <= HIGH + 1

\* sanity check 1 of tpm_write
InUserRange(key) == LOW <= key /\ key <= HIGH

\* a size check that looks at the transfer limit alone
FitsLimits_BufferOnly(value_len, hw_info) == value_len <= hw_info.TPM2_PT_NV_BUFFER_MAX

\* sanity check 2 of tpm_write: both assertions on value_len
FitsLimits(value_len, hw_info) ==
  /\ value_len <= hw_info.TPM2_PT_NV_BUFFER_MAX
  /\ value_len <= hw_info.TPM2_PT_NV_INDEX_MAX

\* sanity check 4 of tpm_write: a truthy pwd has min_pwd_length characters
PwdAccepted(pwd) == Truthy(pwd) => Len(pwd.text) >= min_pwd_length

----------------------------------------------------------------------------
(* tpm_write *)

\* the call and sanity check 1, which asks the device nothing
tpm_write(p, key, value, pwd) ==
  /\ Free(p)
  /\ Begin(p, "write", key, value, pwd)
  /\ IF InUserRange(key)
     THEN pc' = [pc EXCEPT ![p] = "w_limits"]
          /\ outcome' = [outcome EXCEPT ![p] = "running"]
          /\ result' = [result EXCEPT ![p] = NoResult]
     ELSE Finish(p, "OutOfRangeError", NoResult)
  /\ UNCHANGED <<nv, limits, committed, deleted>>

\* sanity check 2: tmp_get_hardware_info and the two assertions on value_len
tpm_write_limits(p) ==
  /\ pc[p] = "w_limits"
  /\ Issue(p, Cmd("getcap_properties", 0, 0, ""))
  /\ IF FitsLimits(Len(call[p].value), DevProperties(limits))
     THEN Goto(p, "w_indices")
     ELSE Finish(p, "ValueTooLargeError", NoResult)
  /\ UNCHANGED <<nv, limits, call, nv0, committed, deleted>>

\* sanity checks 3 and 4 with the password looked at only after the define
tpm_write_checks_define_first(p) ==
  /\ pc[p] = "w_indices"
  /\ LET nv_indices_list == tpm_get_nv_indices(nv)
         c == call[p]
         r == DevDefine(nv, limits, c.key, Len(c.value), CmdAuth(c.pwd), "none")
     IN  IF nv_indices_list.none
           THEN Issue(p, Cmd("getcap_handles", 0, 0, "")) /\ nv' = nv
                /\ Finish(p, "TypeError", NoResult)
         ELSE IF c.key \in nv_indices_list.items
           THEN Issue(p, Cmd("getcap_handles", 0, 0, "")) /\ nv' = nv
                /\ Finish(p, "DuplicateAddressError", NoResult)
         ELSE IF ~PwdAccepted(c.pwd)
           THEN /\ cmds' = [cmds EXCEPT ![p] =
                              @ \o <<Cmd("getcap_handles", 0, 0, ""),
                                     Cmd("nvdefine", c.key, Len(c.value), CmdAuth(c.pwd))>>]
                /\ nv' = r.dev
                /\ Finish(p, "WeakCredentialError", NoResult)
         ELSE Issue(p, Cmd("getcap_handles", 0, 0, "")) /\ nv' = nv /\ Goto(p, "w_define")
  /\ UNCHANGED <<limits, call, nv0, committed, deleted>>

\* sanity check 4 alone: the list of indices is fetched and not looked at
tpm_write_checks_no_collision(p) ==
  /\ pc[p] = "w_indices"
  /\ Issue(p, Cmd("getcap_handles", 0, 0, ""))
  /\ IF ~PwdAccepted(call[p].pwd)
     THEN Finish(p, "WeakCredentialError", NoResult)
     ELSE Goto(p, "w_define")
  /\ UNCHANGED <<nv, limits, call, nv0, committed, deleted>>

\* sanity checks 3 and 4 with an existing key written in place instead of refused
tpm_write_checks_overwrite(p) ==
  /\ pc[p] = "w_indices"
  /\ Issue(p, Cmd("getcap_handles", 0, 0, ""))
  /\ LET nv_indices_list == tpm_get_nv_indices(nv)
     IN  IF nv_indices_list.none THEN Finish(p, "TypeError", NoResult)
         ELSE IF ~PwdAccepted(call[p].pwd)
           THEN Finish(p, "WeakCredentialError", NoResult)
         ELSE IF call[p].key \in nv_indices_list.items
           THEN Goto(p, "w_write")
         ELSE Goto(p, "w_define")
  /\ UNCHANGED <<nv, limits, call, nv0, committed, deleted>>

\* sanity checks 3 and 4, with a list of indices that still holds the deleted ones
tpm_write_checks_stale_list(p) ==
  /\ pc[p] = "w_indices"
  /\ Issue(p, Cmd("getcap_handles", 0, 0, ""))
  /\ LET nv_indices_list == tpm_get_nv_indices(nv)
     IN  IF nv_indices_list.none THEN Finish(p, "TypeError", NoResult)
         ELSE IF call[p].key \in nv_indices_list.items \cup deleted
           THEN Finish(p, "DuplicateAddressError", NoResult)
         ELSE IF ~PwdAccepted(call[p].pwd)
           THEN Finish(p, "WeakCredentialError", NoResult)
         ELSE Goto(p, "w_define")
  /\ UNCHANGED <<nv, limits, call, nv0, committed, deleted>>

\* sanity checks 3 and 4: the key is not in the list of indices, the pwd is long enough
tpm_write_checks(p) ==
  /\ pc[p] = "w_indices"
  /\ Issue(p, Cmd("getcap_handles", 0, 0, ""))
  /\ LET nv_indices_list == tpm_get_nv_indices(nv)
     IN  IF nv_indices_list.none THEN Finish(p, "TypeError", NoResult)
         ELSE IF call[p].key \in nv_indices_list.items
           THEN Finish(p, "DuplicateAddressError", NoResult)
         ELSE IF ~PwdAccepted(call[p].pwd)
           THEN Finish(p, "WeakCredentialError", NoResult)
         ELSE Goto(p, "w_define")
  /\ UNCHANGED <<nv, limits, call, nv0, committed, deleted>>

\* create nv index, with a refused tpm2_nvdefine not ending the call
tpm_write_define_unchecked(p) ==
  /\ pc[p] = "w_define"
  /\ \E fault \in DefineFaults :
       LET c == call[p]
           r == DevDefine(nv, limits, c.key, Len(c.value), CmdAuth(c.pwd), fault)
       IN  /\ Issue(p, Cmd("nvdefine", c.key, Len(c.value), CmdAuth(c.pwd)))
           /\ nv' = r.dev
           /\ deleted' = IF r.ok THEN deleted \ {c.key} ELSE deleted
           /\ call' = [call EXCEPT ![p].result_response = r.echo]
           /\ IF r.ok /\ r.echo # c.key THEN Finish(p, "AllocationMismatchError", NoResult)
              ELSE Goto(p, "w_write")
  /\ UNCHANGED <<limits, nv0, committed>>

\* create nv index, with the response of tpm2_nvdefine not compared to the key
tpm_write_define_no_echo_check(p) ==
  /\ pc[p] = "w_define"
  /\ \E fault \in DefineFaults :
       LET c == call[p]
           r == DevDefine(nv, limits, c.key, Len(c.value), CmdAuth(c.pwd), fault)
       IN  /\ Issue(p, Cmd("nvdefine", c.key, Len(c.value), CmdAuth(c.pwd)))
           /\ nv' = r.dev
           /\ deleted' = IF r.ok THEN deleted \ {c.key} ELSE deleted
           /\ call' = [call EXCEPT ![p].result_response = r.echo]
           /\ IF ~r.ok THEN Finish(p, "RuntimeError", NoResult)
              ELSE Goto(p, "w_write")
  /\ UNCHANGED <<limits, nv0, committed>>

\* tpm2_nvwrite, with a refused command followed by tpm2_nvundefine of the index
tpm_write_write_rollback(p) ==
  /\ pc[p] = "w_write"
  /\ \E fault \in WriteFaults :
       LET c == call[p]
           bytes == Utf8Encode(c.value)
           r == DevWrite(nv, c.key, CmdAuth(c.pwd), bytes, fault)
       IN  IF ~r.ok
           THEN /\ cmds' = [cmds EXCEPT ![p] =
                             @ \o << Cmd("nvwrite", c.key, Len(bytes), CmdAuth(c.pwd)),
                                     Cmd("nvundefine", c.key, 0, "") >>]
                /\ nv' = DevUndefine(r.dev, c.key, "none").dev
                /\ Finish(p, "SystemExit", NoResult)
           ELSE /\ Issue(p, Cmd("nvwrite", c.key, Len(bytes), CmdAuth(c.pwd)))
                /\ nv' = r.dev
                /\ Goto(p, "r_indices")
  /\ UNCHANGED <<limits, call, nv0, committed, deleted>>

\* tpm2_nvwrite, with a refused command issued once more
tpm_write_write_retry(p) ==
  /\ pc[p] = "w_write"
  /\ \E fault \in WriteFaults :
       LET c == call[p]
           bytes == Utf8Encode(c.value)
           r == DevWrite(nv, c.key, CmdAuth(c.pwd), bytes, fault)
       IN  /\ Issue(p, Cmd("nvwrite", c.key, Len(bytes), CmdAuth(c.pwd)))
           /\ nv' = r.dev
           /\ IF ~r.ok
              THEN IF \A i \in DOMAIN cmds[p] : cmds[p][i].cmd # "nvwrite"
                   THEN Goto(p, "w_write")
                   ELSE Finish(p, "SystemExit", NoResult)
              ELSE Goto(p, "r_indices")
  /\ UNCHANGED <<limits, call, nv0, committed, deleted>>

\* create nv index: tpm2_nvdefine, then the assertion on the response
tpm_write_define(p) ==
  /\ pc[p] = "w_define"
  /\ \E fault \in DefineFaults :
       LET c == call[p]
           r == DevDefine(nv, limits, c.key, Len(c.value), CmdAuth(c.pwd), fault)
       IN  /\ Issue(p, Cmd("nvdefine", c.key, Len(c.value), CmdAuth(c.pwd)))
           /\ nv' = r.dev
           /\ deleted' = IF r.ok THEN deleted \ {c.key} ELSE deleted
           /\ call' = [call EXCEPT ![p].result_response = r.echo]
           /\ IF ~r.ok THEN Finish(p, "RuntimeError", NoResult)
              ELSE IF r.echo # c.key THEN Finish(p, "AllocationMismatchError", NoResult)
              ELSE Goto(p, "w_write")
  /\ UNCHANGED <<limits, nv0, committed>>

\* write value: tpm2_nvwrite with the encoded value on stdin
tpm_write_write(p) ==
  /\ pc[p] = "w_write"
  /\ \E fault \in WriteFaults :
       LET c == call[p]
           bytes == Utf8Encode(c.value)
           r == DevWrite(nv, c.key, CmdAuth(c.pwd), bytes, fault)
       IN  /\ Issue(p, Cmd("nvwrite", c.key, Len(bytes), CmdAuth(c.pwd)))
           /\ nv' = r.dev
           /\ IF ~r.ok THEN Finish(p, "SystemExit", NoResult)
              ELSE Goto(p, "r_indices")
  /\ UNCHANGED <<limits, call, nv0, committed, deleted>>

----------------------------------------------------------------------------
(* tpm_read_nvm, called by the caller and by tpm_write for its read-back *)

\* what tpm_read_nvm returns once tpm2_nvread has answered: the decoded
\* string, or the exception object its except branch returns
ReadReturn(bytes) ==
  IF Utf8Decode(bytes) = DecodeError THEN [kind |-> "exception", str |-> <<>>]
  ELSE [kind |-> "str", str |-> Utf8Decode(bytes)]

\* a read-back whose result is not compared
ReadBackMatches_Always(res, value) == TRUE

\* the assertion that ends tpm_write: tpm_read_nvm(index=key, pwd=pwd) == value
ReadBackMatches(res, value) == res.kind = "str" /\ res.str = value

\* the call
tpm_read_nvm(p, index, pwd) ==
  /\ Free(p)
  /\ Begin(p, "read", index, <<>>, pwd)
  /\ pc' = [pc EXCEPT ![p] = "r_indices"]
  /\ outcome' = [outcome EXCEPT ![p] = "running"]
  /\ result' = [result EXCEPT ![p] = NoResult]
  /\ UNCHANGED <<nv, limits, committed, deleted>>

\* tpm_get_nv_index_metadata, first half: the index is in the list of indices
tpm_get_nv_index_metadata_exists(p) ==
  /\ pc[p] = "r_indices"
  /\ Issue(p, Cmd("getcap_handles", 0, 0, ""))
  /\ LET nv_indices_list == tpm_get_nv_indices(nv)
     IN  IF nv_indices_list.none THEN Finish(p, "TypeError", NoResult)
         ELSE IF call[p].key \notin nv_indices_list.items
           THEN Finish(p, "NotFoundError", NoResult)
         ELSE Goto(p, "r_public")
  /\ UNCHANGED <<nv, limits, call, nv0, committed, deleted>>

\* tpm_get_nv_index_metadata, second half: tpm2_nvreadpublic, and the size taken from it
tpm_get_nv_index_metadata_public(p) ==
  /\ pc[p] = "r_public"
  /\ Issue(p, Cmd("nvreadpublic", call[p].key, 0, ""))
  /\ IF nv[call[p].key].defined
     THEN /\ call' = [call EXCEPT ![p].nvm_length = DevReadPublic(nv, call[p].key)]
          /\ Goto(p, "r_read")
     ELSE /\ call' = call
          /\ Finish(p, "RuntimeError", NoResult)
  /\ UNCHANGED <<nv, limits, nv0, committed, deleted>>

\* tpm2_nvread of nvm_length bytes; run_command leaves the process on a
\* refusal.  In tpm_write the value returned is compared with the value written.
tpm_read_nvm_read(p) ==
  /\ pc[p] = "r_read"
  /\ LET c == call[p]
         r == DevRead(nv, c.key, c.nvm_length, CmdAuth(c.pwd))
         res == ReadReturn(r.bytes)
     IN  /\ Issue(p, Cmd("nvread", c.key, c.nvm_length, CmdAuth(c.pwd)))
         /\ IF ~r.ok
            THEN Finish(p, "SystemExit", NoResult) /\ committed' = committed
            ELSE IF c.op = "read"
            THEN Finish(p, "ok", res) /\ committed' = committed
            ELSE IF ReadBackMatches(res, c.value)
            THEN /\ Finish(p, "ok", NoResult)
                 /\ committed' = [committed EXCEPT ![c.key] =
                                    [set |-> TRUE, value |-> c.value, pwd |-> c.pwd]]
            ELSE Finish(p, "WriteVerificationError", NoResult) /\ committed' = committed
  /\ UNCHANGED <<nv, limits, call, nv0, deleted>>

----------------------------------------------------------------------------
(* tpm_delete_index *)

\* the call
tpm_delete_index(p, key) ==
  /\ Free(p)
  /\ Begin(p, "delete", key, <<>>, NoPwd)
  /\ pc' = [pc EXCEPT ![p] = "d_indices"]
  /\ outcome' = [outcome EXCEPT ![p] = "running"]
  /\ result' = [result EXCEPT ![p] = NoResult]
  /\ UNCHANGED <<nv, limits, committed, deleted>>

\* ensure what you try to delete exists
tpm_delete_index_exists(p) ==
  /\ pc[p] = "d_indices"
  /\ Issue(p, Cmd("getcap_handles", 0, 0, ""))
  /\ LET nv_indices_list == tpm_get_nv_indices(nv)
     IN  IF nv_indices_list.none THEN Finish(p, "TypeError", NoResult)
         ELSE IF call[p].key \notin nv_indices_list.items
           THEN Finish(p, "NotFoundError", NoResult)
         ELSE Goto(p, "d_undefine")
  /\ UNCHANGED <<nv, limits, call, nv0, committed, deleted>>

\* tpm2_nvundefine -C o key, with no password of the index
tpm_delete_index_undefine(p) ==
  /\ pc[p] = "d_undefine"
  /\ \E fault \in UndefineFaults :
       LET c == call[p]
           r == DevUndefine(nv, c.key, fault)
       IN  /\ Issue(p, Cmd("nvundefine", c.key, 0, ""))
           /\ nv' = r.dev
           /\ committed' = IF r.ok THEN [committed EXCEPT ![c.key] = NoCommit] ELSE committed
           /\ deleted' = IF r.ok THEN deleted \cup {c.key} ELSE deleted
           /\ IF r.ok THEN Finish(p, "ok", NoResult) ELSE Finish(p, "SystemExit", NoResult)
  /\ UNCHANGED <<limits, call, nv0>>

----------------------------------------------------------------------------
(* The script: one caller, one call after the other *)

\* a finished call hands its outcome to the caller (main, or the next run of
\* the script after an exit), whose next call starts afresh
call_returns(p) ==
  /\ pc[p] = "done"
  /\ pc' = [pc EXCEPT ![p] = "idle"]
  /\ call' = [call EXCEPT ![p] = NoCall]
  /\ cmds' = [cmds EXCEPT ![p] = <<>>]
  /\ nv0' = [nv0 EXCEPT ![p] = nv]
  /\ outcome' = [outcome EXCEPT ![p] = "none"]
  /\ result' = [result EXCEPT ![p] = NoResult]
  /\ UNCHANGED <<nv, limits, committed, deleted>>

Next ==
  \/ \E key \in Addr, value \in Values, pwd \in Pwds : tpm_write(1, key, value, pwd) /\ UNCHANGED replaced
  \/ tpm_write_limits(1) /\ UNCHANGED replaced
  \/ tpm_write_checks(1) /\ UNCHANGED replaced
  \/ tpm_write_define(1) /\ UNCHANGED replaced
  \/ tpm_write_write(1) /\ UNCHANGED replaced
  \/ \E index \in Addr, pwd \in Pwds : tpm_read_nvm(1, index, pwd) /\ UNCHANGED replaced
  \/ tpm_get_nv_index_metadata_exists(1) /\ UNCHANGED replaced
  \/ tpm_get_nv_index_metadata_public(1) /\ UNCHANGED replaced
  \/ tpm_read_nvm_read(1) /\ UNCHANGED replaced
  \/ \E key \in Addr : tpm_delete_index(1, key) /\ UNCHANGED replaced
  \/ tpm_delete_index_exists(1) /\ UNCHANGED replaced
  \/ tpm_delete_index_undefine(1) /\ UNCHANGED replaced
  \/ call_returns(1) /\ UNCHANGED replaced

Spec == Init /\ [][Next]_vars

----------------------------------------------------------------------------
(* Two runs of the script at once, each calling tpm_write for the same key *)

\* the keys and passwords of the two racing calls
RaceKeys == {LOW}

RacePwds == {NoPwd, SomePwd("abcde")}

NextRace ==
  \E p \in Procs :
    \/ \E key \in RaceKeys, value \in Values, pwd \in RacePwds :
         /\ \A q \in Procs : call[q].op # "none" => call[q].key = key
         /\ tpm_write(p, key, value, pwd)
         /\ UNCHANGED replaced
    \/ tpm_write_limits(p) /\ UNCHANGED replaced
    \/ tpm_write_checks(p) /\ UNCHANGED replaced
    \/ tpm_write_define(p) /\ UNCHANGED replaced
    \/ tpm_write_write(p) /\ UNCHANGED replaced
    \/ tpm_get_nv_index_metadata_exists(p) /\ UNCHANGED replaced
    \/ tpm_get_nv_index_metadata_public(p) /\ UNCHANGED replaced
    \/ tpm_read_nvm_read(p) /\ UNCHANGED replaced

SpecRace == Init /\ [][NextRace]_vars

----------------------------------------------------------------------------
(* One caller that writes, reads and deletes one key, with the value each
   deleted index held kept for reference *)

ReplaceKeys == {LOW}

\* replaced after a step: an index that the step removed from the device is
\* remembered with the value a successful tpm_write had given it, if any
ReplacedAfter ==
  [a \in Addr |->
     IF nv[a].defined /\ ~nv'[a].defined
     THEN IF committed[a].set THEN [set |-> TRUE, value |-> committed[a].value]
          ELSE NoReplaced
     ELSE replaced[a]]

NextReplace ==
  \/ (\E key \in ReplaceKeys, value \in Values, pwd \in RacePwds : tpm_write(1, key, value, pwd))
       /\ replaced' = ReplacedAfter
  \/ tpm_write_limits(1) /\ replaced' = ReplacedAfter
  \/ tpm_write_checks(1) /\ replaced' = ReplacedAfter
  \/ tpm_write_define(1) /\ replaced' = ReplacedAfter
  \/ tpm_write_write(1) /\ replaced' = ReplacedAfter
  \/ (\E index \in ReplaceKeys, pwd \in RacePwds : tpm_read_nvm(1, index, pwd))
       /\ replaced' = ReplacedAfter
  \/ tpm_get_nv_index_metadata_exists(1) /\ replaced' = ReplacedAfter
  \/ tpm_get_nv_index_metadata_public(1) /\ replaced' = ReplacedAfter
  \/ tpm_read_nvm_read(1) /\ replaced' = ReplacedAfter
  \/ (\E key \in ReplaceKeys : tpm_delete_index(1, key)) /\ replaced' = ReplacedAfter
  \/ tpm_delete_index_exists(1) /\ replaced' = ReplacedAfter
  \/ tpm_delete_index_undefine(1) /\ replaced' = ReplacedAfter
  \/ call_returns(1) /\ replaced' = ReplacedAfter

SpecReplace == Init /\ [][NextReplace]_vars

----------------------------------------------------------------------------
(* Properties *)

Done(p) == pc[p] = "done"

\* the call of p has issued the device command name
Issued(p, name) == \E i \in DOMAIN cmds[p] : cmds[p][i].cmd = name

ValidationErrors ==
  {"OutOfRangeError", "ValueTooLargeError", "DuplicateAddressError", "WeakCredentialError"}

\* C1: round trip.  Once tpm_write has ended successfully for (key, value, pwd)
\* the index exists, and a tpm_read_nvm of that key with that pwd returns
\* exactly value, as long as the index was not deleted.
C1_RoundTrip ==
  \A p \in Procs :
    /\ (Done(p) /\ call[p].op = "write" /\ outcome[p] = "ok")
         => /\ nv[call[p].key].defined
            /\ committed[call[p].key].value = call[p].value
    /\ (Done(p) /\ call[p].op = "read" /\ committed[call[p].key].set
          /\ committed[call[p].key].pwd = call[p].pwd)
         => /\ outcome[p] = "ok"
            /\ result[p] = [kind |-> "str", str |-> committed[call[p].key].value]
            /\ nv[call[p].key].defined

\* C1 witness: a read with the password of a protected index returned the
\* one-or-more characters written to it
C1_Witness ==
  \E p \in Procs :
    /\ Done(p) /\ call[p].op = "read" /\ outcome[p] = "ok"
    /\ committed[call[p].key].set
    /\ committed[call[p].key].pwd = call[p].pwd
    /\ Truthy(call[p].pwd)
    /\ result[p].kind = "str" /\ Len(result[p].str) > 0
    /\ result[p].str = committed[call[p].key].value

\* C2: a tpm_write that fails one of its four sanity checks has issued no
\* define and no write, and the device is as it was when the call began.
C2_ValidationNoEffect ==
  \A p \in Procs :
    (Done(p) /\ call[p].op = "write" /\ outcome[p] \in ValidationErrors)
      => /\ ~Issued(p, "nvdefine")
         /\ ~Issued(p, "nvwrite")
         /\ nv = nv0[p]
         /\ DevHandles(nv) = DevHandles(nv0[p])

\* C2 witness: a too short password was refused while the device held an index
C2_Witness ==
  \E p \in Procs :
    /\ Done(p) /\ call[p].op = "write" /\ outcome[p] = "WeakCredentialError"
    /\ DevHandles(nv) # {}
    /\ nv = nv0[p]

\* C3 as stated: a tpm_write to the key of an index that an earlier tpm_write
\* created, and that was not deleted, fails with DuplicateAddressError
\* whatever its value, issues no define and no write, and leaves the index as
\* it was.
C3_DuplicateAlways ==
  \A p \in Procs :
    (Done(p) /\ call[p].op = "write" /\ nv0[p][call[p].key].defined
       /\ committed[call[p].key].set)
      => /\ outcome[p] = "DuplicateAddressError"
         /\ ~Issued(p, "nvdefine")
         /\ ~Issued(p, "nvwrite")
         /\ nv[call[p].key] = nv0[p][call[p].key]

\* C3 amended: such a tpm_write fails with DuplicateAddressError when its
\* value passes the size check, and with ValueTooLargeError when it does not;
\* in both cases it issues no define and no write, and the index keeps the
\* first value, its size and its auth.
C3_DuplicateRejected ==
  \A p \in Procs :
    (Done(p) /\ call[p].op = "write" /\ nv0[p][call[p].key].defined
       /\ committed[call[p].key].set)
      => LET k == call[p].key
             n == Len(call[p].value)
         IN  /\ outcome[p] = IF n <= limits.buf /\ n <= limits.idx
                             THEN "DuplicateAddressError" ELSE "ValueTooLargeError"
             /\ ~Issued(p, "nvdefine")
             /\ ~Issued(p, "nvwrite")
             /\ nv = nv0[p]
             /\ nv[k].data = Utf8Encode(committed[k].value)
             /\ nv[k].size = Len(committed[k].value)
             /\ nv[k].auth = CmdAuth(committed[k].pwd)

\* C3 witness: a second tpm_write with another value and another password
\* was refused as a duplicate
C3_Witness ==
  \E p \in Procs :
    /\ Done(p) /\ call[p].op = "write" /\ outcome[p] = "DuplicateAddressError"
    /\ committed[call[p].key].set
    /\ committed[call[p].key].value # call[p].value
    /\ committed[call[p].key].pwd # call[p].pwd
    /\ Len(committed[call[p].key].value) > 0

C5_EmptyRejected ==
  \A p \in Procs :
    /\ (call[p].op = "write" /\ Len(call[p].value) = 0 /\ Issued(p, "getcap_properties"))
         => outcome[p] = "ValueTooLargeError"
    /\ \A i \in DOMAIN cmds[p] : cmds[p][i].cmd = "nvdefine" => cmds[p][i].size > 0

\* C6 as stated: no define, write, read or undefine command is issued for an
\* address outside [LOW, HIGH], and tpm_write fails its range check exactly
\* for the keys outside.
C6_NeverOutsideBand ==
  \A p \in Procs :
    /\ \A i \in DOMAIN cmds[p] :
         cmds[p][i].cmd \in {"nvdefine", "nvwrite", "nvread", "nvundefine"}
           => (LOW <= cmds[p][i].addr /\ cmds[p][i].addr <= HIGH)
    /\ (call[p].op = "write")
         => ((outcome[p] = "OutOfRangeError") <=> ~(LOW <= call[p].key /\ call[p].key <= HIGH))

\* C6 amended: no define and no write command, and no command of a tpm_write
\* at all, is issued for an address outside [LOW, HIGH] (tpm_read_nvm and
\* tpm_delete_index take any existing index); tpm_write passes its range
\* check for LOW and HIGH and fails it with OutOfRangeError for LOW - 1 and
\* HIGH + 1.
C6_WriteNeverOutsideBand ==
  \A p \in Procs :
    /\ \A i \in DOMAIN cmds[p] :
         (cmds[p][i].cmd \in {"nvdefine", "nvwrite"}
            \/ (call[p].op = "write" /\ cmds[p][i].cmd \in {"nvread", "nvreadpublic"}))
           => (LOW <= cmds[p][i].addr /\ cmds[p][i].addr <= HIGH)
    /\ (call[p].op = "write")
         => /\ (outcome[p] = "OutOfRangeError") <=> ~(LOW <= call[p].key /\ call[p].key <= HIGH)
            /\ (outcome[p] = "OutOfRangeError") => cmds[p] = <<>>

\* C6 witness: a tpm_write to HIGH went through to its end
C6_Witness ==
  \E p \in Procs :
    /\ Done(p) /\ call[p].op = "write" /\ outcome[p] = "ok"
    /\ call[p].key = HIGH
    /\ Issued(p, "nvdefine") /\ Issued(p, "nvwrite") /\ Issued(p, "nvread")

\* C7 as stated: a tpm_write given a password, the empty string included, of
\* fewer than 5 characters issues no define, so no call that was given a
\* password creates an index without auth.
C7_CredentialGate ==
  \A p \in Procs :
    (call[p].op = "write" /\ call[p].pwd.present)
      => /\ (Len(call[p].pwd.text) < min_pwd_length => ~Issued(p, "nvdefine"))
         /\ \A i \in DOMAIN cmds[p] : cmds[p][i].cmd = "nvdefine" => cmds[p][i].auth # ""

\* C8 as stated: a tpm_read_nvm of an index created with a password, given
\* another password or none, ends in an error of its own that reaches the
\* caller - not the exit of the process every refused command ends in, not
\* the not-found error - and returns no value.
C8_AuthErrorDelivered ==
  \A p \in Procs :
    (Done(p) /\ call[p].op = "read" /\ committed[call[p].key].set
       /\ Truthy(committed[call[p].key].pwd)
       /\ CmdAuth(call[p].pwd) # CmdAuth(committed[call[p].key].pwd))
      => /\ outcome[p] \notin {"SystemExit", "RuntimeError", "NotFoundError", "TypeError"}
         /\ result[p].kind # "str"

\* C9 as stated: after a successful tpm_delete_index the key is in no list of
\* indices, and until a tpm_write creates it again a tpm_read_nvm of it fails
\* with NotFoundError without a read command.
C9_DeleteThenRead ==
  \A p \in Procs :
    /\ \A a \in deleted : a \notin DevHandles(nv)
    /\ (Done(p) /\ call[p].op = "read" /\ call[p].key \in deleted)
         => /\ outcome[p] = "NotFoundError"
            /\ ~Issued(p, "nvread")

\* C10 as stated: an index that carries an auth is not removed by a
\* tpm_delete_index that does not present it.
C10_DeleteNeedsCredential ==
  \A p \in Procs :
    (Done(p) /\ call[p].op = "delete" /\ nv0[p][call[p].key].defined
       /\ nv0[p][call[p].key].auth # "")
      => \/ nv[call[p].key].defined
         \/ \E i \in DOMAIN cmds[p] :
              cmds[p][i].cmd = "nvundefine" /\ cmds[p][i].auth = nv0[p][call[p].key].auth

----------------------------------------------------------------------------
(* Properties of the race *)

\* the tpm2_nvdefine of p was issued and not refused
DefineSucceeded(p) ==
  /\ Issued(p, "nvdefine")
  /\ ~(outcome[p] = "RuntimeError" /\ cmds[p][Len(cmds[p])].cmd = "nvdefine")

\* what the claim says of two racing tpm_write calls but for the final value:
\* at most one define succeeds, a call whose define did not succeed issues no
\* write, and with valid arguments it fails at the collision check or at the define
RaceOneDefine ==
  /\ \A p, q \in Procs : (DefineSucceeded(p) /\ DefineSucceeded(q)) => p = q
  /\ \A p \in Procs : Issued(p, "nvwrite") => DefineSucceeded(p)
  /\ \A p, q \in Procs :
       (p # q /\ DefineSucceeded(q) /\ Done(p) /\ ~DefineSucceeded(p)
          /\ Len(call[p].value) <= limits.buf /\ Len(call[p].value) <= limits.idx
          /\ PwdAccepted(call[p].pwd))
         => outcome[p] \in {"DuplicateAddressError", "RuntimeError"}

\* C11 as stated: of two racing tpm_write calls for one free key at most one
\* define succeeds, the other call fails at the collision check or at the
\* define and issues no write, and once both have ended the index holds the
\* value of the call whose define succeeded.
C11_RaceWinnerValueHeld ==
  /\ RaceOneDefine
  /\ \A p \in Procs :
       (DefineSucceeded(p) /\ \A q \in Procs : Done(q))
         => /\ nv[call[p].key].written
            /\ nv[call[p].key].data = Utf8Encode(call[p].value)

\* C11 amended: ... and once the call whose define succeeded has ended
\* successfully, the index holds that call's value, size and auth, whatever
\* the other call did; if it failed after its define, the index is left as
\* that call left it.
C11_RaceOneWinner ==
  /\ RaceOneDefine
  /\ \A p \in Procs :
       (DefineSucceeded(p) /\ Done(p) /\ outcome[p] = "ok")
         => /\ nv[call[p].key].written
            /\ nv[call[p].key].data = Utf8Encode(call[p].value)
            /\ nv[call[p].key].size = Len(call[p].value)
            /\ nv[call[p].key].auth = CmdAuth(call[p].pwd)
  /\ \A k \in RaceKeys :
       nv[k].written
         => \E p \in Procs :
              /\ DefineSucceeded(p) /\ call[p].key = k
              /\ nv[k].data \in {Utf8Encode(call[p].value), Erased(nv[k].size)}

\* C11 witness: both calls passed the collision check, one define was
\* refused, the other call ended successfully with another value
C11_Witness ==
  \E p, q \in Procs :
    /\ p # q /\ Done(p) /\ Done(q)
    /\ outcome[p] = "ok" /\ outcome[q] = "RuntimeError"
    /\ Issued(q, "nvdefine") /\ ~Issued(q, "nvwrite")
    /\ call[p].value # call[q].value
    /\ nv[call[p].key].data = Utf8Encode(call[p].value)

----------------------------------------------------------------------------
(* Properties of the steps *)

\* the device command a step of p issues, if it issues one
NewCmd(p) == cmds'[p][Len(cmds'[p])]

IssuesCmd(p) == Len(cmds'[p]) = Len(cmds[p]) + 1

\* C12: write once.  A write command is issued only right after the define of
\* the same call for the same index, to an index not written yet, so an index
\* gets at most one write between its define and its undefine; and as long
\* as an index exists its size and auth do not change, nor do its bytes once
\* written.
C12_WriteOnce ==
  [][ /\ \A p \in Procs :
           (IssuesCmd(p) /\ NewCmd(p).cmd = "nvwrite")
             => /\ ~Issued(p, "nvwrite")
                /\ cmds[p][Len(cmds[p])].cmd = "nvdefine"
                /\ cmds[p][Len(cmds[p])].addr = NewCmd(p).addr
                /\ ~nv[NewCmd(p).addr].written
      /\ \A a \in Addr :
           (nv[a].defined /\ nv'[a].defined)
             => /\ nv'[a].size = nv[a].size
                /\ nv'[a].auth = nv[a].auth
                /\ nv[a].written => nv'[a] = nv[a]
    ]_vars

\* C12 witness: a tpm_write for the key of a written index has run to its end
\* and the index holds the bytes of the first value
C12_Witness ==
  \E p \in Procs :
    /\ Done(p) /\ call[p].op = "write"
    /\ committed[call[p].key].set
    /\ nv0[p][call[p].key].written
    /\ Len(nv[call[p].key].data) > 0
    /\ Len(call[p].value) > 0
    /\ Utf8Encode(call[p].value) # nv[call[p].key].data
    /\ CmdAuth(call[p].pwd) = nv[call[p].key].auth

----------------------------------------------------------------------------
(* Properties of the commands of one call *)

\* C13 as stated: the size a tpm_write asks tpm2_nvdefine for is the number of
\* bytes its tpm2_nvwrite sends, which is within both limits of the device,
\* so the write is not refused for being longer than the index.
C13_PayloadFits ==
  \A p \in Procs :
    \A i, j \in DOMAIN cmds[p] :
      (cmds[p][i].cmd = "nvdefine" /\ cmds[p][j].cmd = "nvwrite")
        => /\ cmds[p][j].size = cmds[p][i].size
           /\ cmds[p][j].size <= limits.buf
           /\ cmds[p][j].size <= limits.idx
           /\ cmds[p][j].size <= nv[cmds[p][j].addr].size

\* the error the fixed order range, size, collision, credential gives a
\* tpm_write with these arguments on device d, "none" if all four pass
FirstViolated(key, value, pwd, d, lim) ==
  IF ~(LOW <= key /\ key <= HIGH) THEN "OutOfRangeError"
  ELSE IF ~(Len(value) <= lim.buf /\ Len(value) <= lim.idx) THEN "ValueTooLargeError"
  ELSE IF d[key].defined THEN "DuplicateAddressError"
  ELSE IF pwd.present /\ Len(pwd.text) < min_pwd_length THEN "WeakCredentialError"
  ELSE "none"

Orphan(d, a) == InUserRange(a) /\ d[a].defined /\ ~committed[a].set

\* C15 as stated: a tpm_write that fails after its define succeeded issues no
\* undefine and leaves the index in the list, and a later tpm_write to that
\* index fails with DuplicateAddressError.
C15_OrphanAlwaysDuplicate ==
  \A p \in Procs :
    LET c == call[p]
    IN  /\ (Done(p) /\ c.op = "write" /\ DefineSucceeded(p) /\ outcome[p] # "ok")
             => /\ ~Issued(p, "nvundefine")
                /\ c.key \in DevHandles(nv)
        /\ (Done(p) /\ c.op = "write" /\ Orphan(nv0[p], c.key))
             => /\ outcome[p] = "DuplicateAddressError"
                /\ nv = nv0[p]

\* C15: no rollback.  A tpm_write that fails after its define succeeded
\* issues no undefine and leaves the index in the list; a later tpm_write to
\* that index issues no command that changes the device and fails with
\* DuplicateAddressError, or with ValueTooLargeError when its value does not
\* pass the size check.
C15_NoRollback ==
  \A p \in Procs :
    LET c == call[p]
    IN  /\ (Done(p) /\ c.op = "write" /\ DefineSucceeded(p) /\ outcome[p] # "ok")
             => /\ ~Issued(p, "nvundefine")
                /\ c.key \in DevHandles(nv)
                /\ Orphan(nv, c.key)
        /\ (Done(p) /\ c.op = "write" /\ Orphan(nv0[p], c.key))
             => /\ outcome[p] = IF FitsLimits(Len(c.value), DevProperties(limits))
                                THEN "DuplicateAddressError" ELSE "ValueTooLargeError"
                /\ ~Issued(p, "nvdefine") /\ ~Issued(p, "nvwrite")
                /\ nv = nv0[p]

\* a tpm_write to an index that an earlier, failed tpm_write left defined and
\* unwritten has ended with DuplicateAddressError
C15_Witness ==
  \E p \in Procs :
    /\ Done(p) /\ call[p].op = "write"
    /\ Orphan(nv0[p], call[p].key) /\ ~nv0[p][call[p].key].written
    /\ outcome[p] = "DuplicateAddressError"

\* what the device answers to the read-back of the tpm_write of p
ReadBackOf(p) == DevRead(nv, call[p].key, call[p].nvm_length, CmdAuth(call[p].pwd))

\* C16: success implies verified.  A tpm_write that ended successfully has
\* as its last command a read of its key with its password, and the bytes
\* that read returns are those of its value; a tpm_write whose read-back was
\* refused or returned other bytes has ended with SystemExit (the read's
\* error) or WriteVerificationError.
C16_SuccessVerified ==
  \A p \in Procs :
    LET c == call[p]
        n == Len(cmds[p])
    IN  (Done(p) /\ c.op = "write")
          => /\ outcome[p] = "ok"
                  => /\ n > 0 /\ cmds[p][n] = Cmd("nvread", c.key, nv[c.key].size, CmdAuth(c.pwd))
                     /\ ReadBackOf(p).ok
                     /\ ReadBackOf(p).bytes = Utf8Encode(c.value)
             /\ (Issued(p, "nvread") /\ ~ReadBackOf(p).ok) => outcome[p] = "SystemExit"
             /\ (Issued(p, "nvread") /\ ReadBackOf(p).ok
                   /\ ReadBackOf(p).bytes # Utf8Encode(c.value))
                  => outcome[p] = "WriteVerificationError"

\* a tpm_write whose read-back returned other bytes than its value has ended
\* with WriteVerificationError
C16_Witness ==
  \E p \in Procs :
    /\ Done(p) /\ call[p].op = "write" /\ Issued(p, "nvread")
    /\ Len(call[p].value) > 0
    /\ ReadBackOf(p).ok /\ ReadBackOf(p).bytes # Utf8Encode(call[p].value)
    /\ outcome[p] = "WriteVerificationError"

\* C17: the define echo gates the write.  A tpm_write whose define was
\* carried out with a response that does not name its key has ended with
\* AllocationMismatchError and has issued no write and no read command; a
\* write command is issued only after a response that names the key.
C17_EchoGatesWrite ==
  \A p \in Procs :
    LET c == call[p]
    IN  /\ (Done(p) /\ c.op = "write" /\ DefineSucceeded(p) /\ c.result_response # c.key)
             => /\ outcome[p] = "AllocationMismatchError"
                /\ ~Issued(p, "nvwrite") /\ ~Issued(p, "nvread")
                /\ cmds[p][Len(cmds[p])].cmd = "nvdefine"
        /\ (c.op = "write" /\ (Issued(p, "nvwrite") \/ Issued(p, "nvread")))
             => c.result_response = c.key

\* a tpm_write has ended with AllocationMismatchError after the device
\* created the index and answered with another address
C17_Witness ==
  \E p \in Procs :
    /\ Done(p) /\ call[p].op = "write" /\ DefineSucceeded(p)
    /\ call[p].result_response # call[p].key
    /\ nv[call[p].key].defined /\ ~nv[call[p].key].written
    /\ outcome[p] = "AllocationMismatchError"

\* a call of p is under way
Running(p) == pc[p] \notin {"idle", "done"}

\* the steps a call of p under way can take
Step(p) ==
  \/ tpm_write_limits(p) \/ tpm_write_checks(p) \/ tpm_write_define(p) \/ tpm_write_write(p)
  \/ tpm_get_nv_index_metadata_exists(p) \/ tpm_get_nv_index_metadata_public(p)
  \/ tpm_read_nvm_read(p)
  \/ tpm_delete_index_exists(p) \/ tpm_delete_index_undefine(p)

\* the number of steps a call at label l has left at most
StepsLeft(l) ==
  CASE l = "w_limits" -> 7 [] l = "w_indices" -> 6 [] l = "w_define" -> 5
    [] l = "w_write" -> 4 [] l = "r_indices" -> 3 [] l = "r_public" -> 2
    [] l = "r_read" -> 1 [] l = "d_indices" -> 2 [] l = "d_undefine" -> 1
    [] OTHER -> 0

\* how often the call of p has issued the device command name
TimesIssued(p, name) == Cardinality({i \in DOMAIN cmds[p] : cmds[p][i].cmd = name})

\* C18: no retries and completion.  A call issues each of define, write and
\* undefine at most once; it has an error outcome only once it has ended; a
\* call under way can always take a step, and each of its steps leaves it
\* with fewer steps to go, so it ends after at most seven steps; and a step
\* whose define, write or undefine the device refused (the device is as it
\* was) is the last step of the call.
C18_NoRetryCompletes ==
  /\ [](\A p \in Procs :
          /\ \A name \in {"nvdefine", "nvwrite", "nvundefine"} : TimesIssued(p, name) <= 1
          /\ Running(p) => (outcome[p] = "running" /\ ENABLED Step(p))
          /\ Done(p) => outcome[p] \notin {"running", "none"})
  /\ [][\A p \in Procs :
          (Running(p) /\ <<pc[p], cmds[p]>> # <<pc'[p], cmds'[p]>>)
            => /\ StepsLeft(pc'[p]) < StepsLeft(pc[p])
               /\ Len(cmds'[p]) <= Len(cmds[p]) + 1
               /\ (pc[p] \in {"w_define", "d_undefine"} /\ nv' = nv) => Done(p)'
               /\ (pc[p] = "w_write" /\ nv' = nv /\ Len(call[p].value) > 0) => Done(p)'
               /\ (pc[p] = "r_read" /\ ~ReadBackOf(p).ok)
                    => (Done(p)' /\ outcome'[p] = "SystemExit")]_vars

\* a call has ended on a refused write, having issued define and write once
\* each and nothing after the write
C18_Witness ==
  \E p \in Procs :
    /\ Done(p) /\ outcome[p] = "SystemExit"
    /\ TimesIssued(p, "nvdefine") = 1 /\ TimesIssued(p, "nvwrite") = 1
    /\ cmds[p][Len(cmds[p])].cmd = "nvwrite"

\* C19 as stated: a tpm_delete_index of a key that is not in the list of
\* indices ends with NotFoundError, issues no undefine and leaves every index
\* as it was.
C19_DeleteGuarded ==
  \A p \in Procs :
    (Done(p) /\ call[p].op = "delete" /\ call[p].key \notin DevHandles(nv0[p]))
      => /\ outcome[p] = "NotFoundError"
         /\ ~Issued(p, "nvundefine")
         /\ nv = nv0[p]

\* the call of p is a tpm_write to a key that a successful tpm_write gave a
\* value, that was deleted after that, and that is not defined as the call begins
WriteAfterDelete(p) ==
  /\ call[p].op = "write"
  /\ replaced[call[p].key].set
  /\ ~nv0[p][call[p].key].defined

\* arguments of tpm_write that violate nothing: key in the band, a value of
\* at least one character within both limits, no password or one long enough
ValidArguments(p) ==
  /\ InUserRange(call[p].key)
  /\ Len(call[p].value) > 0
  /\ FitsLimits(Len(call[p].value), DevProperties(limits))
  /\ call[p].pwd.present => Len(call[p].pwd.text) >= min_pwd_length

\* a tpm_read_nvm of p has returned for a key that was deleted and then given
\* a value again, asked with the password of that value
ReadAfterReplace(p) ==
  /\ Done(p) /\ call[p].op = "read"
  /\ replaced[call[p].key].set
  /\ committed[call[p].key].set
  /\ CmdAuth(call[p].pwd) = CmdAuth(committed[call[p].key].pwd)

====
